---- MODULE Spec2Model ----
(***************************************************************************)
(* firstmover: the bounded bisection locator and multi-tier scanner of     *)
(* gmail_search.py, and the reconciliation / adoption-curve / percentile   *)
(* pipeline of app.py (results, add_card).                                 *)
(*                                                                         *)
(* Optional values (Python None) are sequences of length 0 or 1.           *)
(***************************************************************************)
EXTENDS Integers, Sequences, FiniteSets, TLC

None == << >>
Some(x) == << x >>
Val(o) == o[1]
\* Python truthiness of an optional integer: None and 0 are both falsy.
Truthy(o) == o # None /\ Val(o) # 0

SetMin(S) == CHOOSE x \in S : \A y \in S : x <= y
SetMax(S) == CHOOSE x \in S : \A y \in S : x >= y

VARIABLES
  items,          \* items[i]: internalDate of every message matching tier i's query
  end_dt,         \* datetime.now() taken at line 134
  budget,         \* time_budget_s of gmail_oldest_from_queries_bounded
  clock,          \* time.monotonic() - overall_start
  spc,            \* position in the scanner / locator
  pass_ix,        \* index of the tier in the for loop
  overall_best,
  t0, time_budget_s, lo, hi, best_ts,   \* locals of gmail_find_earliest_hit_ts_bisect
  ended,          \* how the while loop of the current locator call was left
  iters,          \* iterations performed by the current locator call
  slow,           \* slow calls so far
  tier_ts         \* value returned by each locator call so far

scanvars == << items, end_dt, budget, clock, spc, pass_ix, overall_best,
               t0, time_budget_s, lo, hi, best_ts, ended, iters, slow, tier_ts >>

VARIABLES
  cv_rows,      \* the "timeline" rows of one platform in the dataset
  cv_when,      \* the timestamp looked up
  cv_pc,        \* "parse", "lookup", "pct", "done", "series"
  cv_tl,        \* parse_timeline's result
  cv_joined, cv_today, cv_pct, cv_narr,
  cv_now,       \* datetime.now(timezone.utc) read by timeline_series
  cv_series     \* timeline_series' "points_m"

curvevars == << cv_rows, cv_when, cv_pc, cv_tl, cv_joined, cv_today, cv_pct, cv_narr,
                cv_now, cv_series >>

VARIABLES
  proc,            \* the process: "boot", "up", "crashed"
  curves_file,     \* data/adoption_curves.json: "ok", "missing", "badjson"
  file_curves,     \* what the file holds, when it can be read
  CURVES,          \* the module global loaded at import
  session_manual,  \* session["manual_entries"]
  rpc,             \* results(): "idle", "scan", "cards", "done", "raised"
  manual, gmail_hits, gmail_baseline, resolved,   \* locals of results()
  queue,           \* the add_card calls still to make, in call order
  platforms, all_pcts, v_pcts,
  score_all, score_verified,
  calls,           \* what each add_card call of this request computed
  form_in,         \* the month/year fields of the last form or JSON body posted
  creds,           \* get_google_credentials(): None, or the token's standing with the store
  scan_k,          \* position of the scan loop in platform_keys
  scan_outs,       \* what each query of the platform scanned last came to
  scan_failed      \* the platforms every query of which raised in this request

appvars == << proc, curves_file, file_curves, CURVES, session_manual, rpc, manual,
              gmail_hits, gmail_baseline, resolved, queue, platforms, all_pcts,
              v_pcts, score_all, score_verified, calls,
              form_in, creds, scan_k, scan_outs, scan_failed >>

VARIABLES
  pg_n,        \* how many result pages the store holds for the query
  pg_empty,    \* the pages that carry no message
  pg_pc,       \* gmail_oldest_for_query: "off", "loop", "after", "returned"
  page, last, pages,   \* its locals
  pg_result    \* what it returned

pagevars == << pg_n, pg_empty, pg_pc, page, last, pages, pg_result >>

vars == << scanvars, curvevars, appvars, pagevars >>

(***************************************************************************)
(* PART 1.  gmail_search.py: locator and scanner.                          *)
(* Datetimes are integer ticks, TicksPerSec ticks to the second; elapsed   *)
(* monotonic time is an integer number of clock units.                     *)
(***************************************************************************)
TicksPerSec == 2
SecsPerDay == 86400
TicksPerDay == SecsPerDay * TicksPerSec
\* strftime("%Y/%m/%d"): a datetime truncated to its UTC day
DayOf(t) == t \div TicksPerDay

MaxDays == 3
\* every QUERY_MAP entry lists two tiers: strict, then broad
NumTiers == 2
MaxItems == 2
\* a call answers in one clock unit, or in SlowLatency units; at most MaxSlow
\* calls of one scan are slow
SlowLatency == 9
MaxSlow == 1
BigBudget == 120

\* SERVICE_START: the window floor, midnight of a day
StartDay == 1
start_dt0 == StartDay * TicksPerDay
\* datetime.now(): any time of day on one of the last days of the window
EndTimes == { MaxDays * TicksPerDay + o : o \in {0, 1, TicksPerDay - 1} }
\* internalDate of messages the store may hold for a query: one time on each
\* day, and a second message one second into the first day of the window
ItemTimes ==
  { d * TicksPerDay + (TicksPerDay \div 4) * (1 + (d % 2) * 2) : d \in 0..MaxDays }
    \cup { start_dt0 + TicksPerSec }
Stores == { S \in SUBSET ItemTimes : Cardinality(S) <= MaxItems }
Budgets == { 0, 4, 25, BigBudget }
Latencies(n) == IF n < MaxSlow THEN { 1, SlowLatency } ELSE { 1 }

ScanIdle ==
  /\ items = << >> /\ end_dt = 0 /\ budget = 0 /\ clock = 0 /\ spc = "off"
  /\ pass_ix = 0 /\ overall_best = None /\ t0 = 0 /\ time_budget_s = 0
  /\ lo = 0 /\ hi = 0 /\ best_ts = None /\ ended = "none" /\ iters = 0
  /\ slow = 0 /\ tier_ts = << >>

\* gmail_search_exists: "after:<day of lo> before:<day of mid>", days, end exclusive
Matching_NoFloor(q, a, b) == { i \in items[q] : DayOf(i) < DayOf(b) }
Matching(q, a, b) == { i \in items[q] : DayOf(a) <= DayOf(i) /\ DayOf(i) < DayOf(b) }
gmail_search_exists(q, a, b) == Matching(q, a, b) # {}
\* messages().list(maxResults=1): the first listed message; the store lists newest first
FirstListed(q, a, b) == SetMax(Matching(q, a, b))
\* datetime.fromtimestamp((lo.timestamp() + hi.timestamp()) / 2)
Mid_Upper(a, b) == b
Mid(a, b) == a + ((b - a) \div 2)
Converged_Never(a, b) == FALSE
Converged(a, b) == (b - a) < TicksPerSec
KeepMin(best, ts) == IF best = None \/ ts < Val(best) THEN Some(ts) ELSE best
\* remaining = time_budget_s - (time.monotonic() - overall_start)  (line 143)
Remaining_Whole(b, elapsed) == b
Remaining(b, elapsed) == b - elapsed

\* the scanner at line 130: lines 126-128 (`from app import build_gmail`, a name
\* app.py does not define) are taken to have given a service client
ScanInit ==
  /\ end_dt \in EndTimes
  /\ items \in [0..(NumTiers - 1) -> { S \in Stores : \A x \in S : x < end_dt }]
  /\ budget \in Budgets
  /\ clock = 0 /\ spc = "tier" /\ pass_ix = 0 /\ overall_best = None
  /\ t0 = 0 /\ time_budget_s = 0 /\ lo = 0 /\ hi = 0 /\ best_ts = None
  /\ ended = "none" /\ iters = 0 /\ slow = 0 /\ tier_ts = << >>

\* for loop head with a tier left and budget remaining: call the locator (lines 142-150, 86-88)
TierStart ==
  /\ UNCHANGED << curvevars, appvars, pagevars >>
  /\ spc = "tier" /\ pass_ix < NumTiers
  /\ Remaining(budget, clock) > 0
  /\ t0' = clock /\ time_budget_s' = Remaining(budget, clock)
  /\ lo' = start_dt0 /\ hi' = end_dt /\ best_ts' = None
  /\ ended' = "none" /\ iters' = 0
  /\ spc' = "loop"
  /\ UNCHANGED << items, end_dt, budget, clock, pass_ix, overall_best, slow, tier_ts >>

\* for loop head: remaining <= 0 breaks (lines 143-146); return overall_best (line 162)
TierBudgetOut ==
  /\ UNCHANGED << curvevars, appvars, pagevars >>
  /\ spc = "tier" /\ pass_ix < NumTiers
  /\ Remaining(budget, clock) <= 0
  /\ spc' = "returned"
  /\ UNCHANGED << items, end_dt, budget, clock, pass_ix, overall_best,
                  t0, time_budget_s, lo, hi, best_ts, ended, iters, slow, tier_ts >>

\* for loop exhausted: return overall_best (line 162)
TiersDone ==
  /\ UNCHANGED << curvevars, appvars, pagevars >>
  /\ spc = "tier" /\ pass_ix >= NumTiers
  /\ spc' = "returned"
  /\ UNCHANGED << items, end_dt, budget, clock, pass_ix, overall_best,
                  t0, time_budget_s, lo, hi, best_ts, ended, iters, slow, tier_ts >>

\* one iteration of the while loop, every call answering (lines 90-118)
BisectIter ==
  /\ UNCHANGED << curvevars, appvars, pagevars >>
  /\ spc = "loop" /\ (clock - t0) < time_budget_s
  /\ \E d \in Latencies(slow) :
       LET mid == Mid(lo, hi)
           hit == gmail_search_exists(pass_ix, lo, mid)
           nlo == IF hit THEN lo ELSE mid
           nhi == IF hit THEN mid ELSE hi
       IN /\ clock' = clock + d
          /\ slow' = IF d > 1 THEN slow + 1 ELSE slow
          /\ lo' = nlo /\ hi' = nhi
          /\ best_ts' = IF hit THEN KeepMin(best_ts, FirstListed(pass_ix, lo, mid))
                        ELSE best_ts
          /\ iters' = iters + 1
          /\ IF Converged(nlo, nhi)
               THEN spc' = "ret" /\ ended' = "converged"
               ELSE spc' = "loop" /\ ended' = "none"
  /\ UNCHANGED << items, end_dt, budget, pass_ix, overall_best, t0, time_budget_s, tier_ts >>

\* an iteration in which a list or get call raises: nothing catches it in the
\* locator (lines 93-110) or in the scanner (lines 148-150), so the exception
\* leaves both functions and their locals are gone
BisectProbeRaises ==
  /\ UNCHANGED << curvevars, appvars, pagevars >>
  /\ spc = "loop" /\ (clock - t0) < time_budget_s
  /\ spc' = "raised"
  /\ overall_best' = None /\ best_ts' = None /\ lo' = 0 /\ hi' = 0
  /\ t0' = 0 /\ time_budget_s' = 0 /\ iters' = 0 /\ ended' = "raised"
  /\ clock' = 0 /\ slow' = 0
  /\ UNCHANGED << items, end_dt, budget, pass_ix, tier_ts >>

\* while condition false: the loop is left by the budget (line 90)
BisectBudgetOut ==
  /\ UNCHANGED << curvevars, appvars, pagevars >>
  /\ spc = "loop" /\ ~((clock - t0) < time_budget_s)
  /\ spc' = "ret" /\ ended' = "budget"
  /\ UNCHANGED << items, end_dt, budget, clock, pass_ix, overall_best,
                  t0, time_budget_s, lo, hi, best_ts, iters, slow, tier_ts >>

\* the locator returns best_ts (line 120); the scanner records it and checks the
\* budget after the call (lines 153-160)
TierReturn ==
  /\ UNCHANGED << curvevars, appvars, pagevars >>
  /\ spc = "ret"
  /\ LET ts == best_ts
     IN /\ overall_best' = IF Truthy(ts) THEN KeepMin(overall_best, Val(ts))
                           ELSE overall_best
        /\ tier_ts' = Append(tier_ts, ts)
  /\ IF clock >= budget
       THEN spc' = "returned" /\ pass_ix' = pass_ix
       ELSE spc' = "tier" /\ pass_ix' = pass_ix + 1
  /\ UNCHANGED << items, end_dt, budget, clock, t0, time_budget_s, lo, hi,
                  best_ts, ended, iters, slow >>

ScanNext ==
  \/ TierStart \/ TierBudgetOut \/ TiersDone
  \/ BisectIter \/ BisectProbeRaises \/ BisectBudgetOut
  \/ TierReturn


(***************************************************************************)
(* PART 2.  app.py: adoption-curve and percentile arithmetic.              *)
(* A timeline is a sequence of <<date, users>> pairs; dates are integers   *)
(* on one time axis.  Percentages are kept in tenths (12.3 is 123).        *)
(***************************************************************************)
\* Python round(): the nearest integer to n/d (d > 0), ties to the even one
RoundFloor(n, d) == n \div d
RoundHalfEven(n, d) ==
  LET q == n \div d
      r == n % d
  IN IF 2 * r < d THEN q
     ELSE IF 2 * r > d THEN q + 1
     ELSE IF q % 2 = 0 THEN q ELSE q + 1

\* sorted(rows, key=date): stable insertion sort of the file's rows by date
RECURSIVE InsertByDate(_, _)
InsertByDate(sorted, row) ==
  IF sorted = << >> THEN << row >>
  ELSE IF row[1] < Head(sorted)[1] THEN << row >> \o sorted
  ELSE << Head(sorted) >> \o InsertByDate(Tail(sorted), row)
RECURSIVE SortByDate(_)
SortByDate(rows) ==
  IF rows = << >> THEN << >>
  ELSE InsertByDate(SortByDate(SubSeq(rows, 1, Len(rows) - 1)), rows[Len(rows)])

\* the body of the for loop of users_at: the first pair that brackets `when`
Interpolate_Floor(tl, when) ==
  LET n == Len(tl)
      I == { i \in 1..(n - 1) : tl[i][1] <= when /\ when <= tl[i + 1][1] }
  IN IF I = {} THEN tl[n][2]
     ELSE LET i == SetMin(I)
              span == tl[i + 1][1] - tl[i][1]
          IN IF span = 0 THEN tl[i][2]
             ELSE RoundFloor(tl[i][2] * span + (when - tl[i][1]) * (tl[i + 1][2] - tl[i][2]), span)
Interpolate(tl, when) ==
  LET n == Len(tl)
      I == { i \in 1..(n - 1) : tl[i][1] <= when /\ when <= tl[i + 1][1] }
  IN IF I = {} THEN tl[n][2]
     ELSE LET i == SetMin(I)
              span == tl[i + 1][1] - tl[i][1]
          IN IF span = 0 THEN tl[i][2]
             ELSE RoundHalfEven(tl[i][2] * span + (when - tl[i][1]) * (tl[i + 1][2] - tl[i][2]), span)

\* users_at on a parsed (sorted) timeline
users_at(tl, when) ==
  IF tl = << >> THEN None
  ELSE IF when <= tl[1][1] THEN Some(tl[1][2])
  ELSE IF when >= tl[Len(tl)][1] THEN Some(tl[Len(tl)][2])
  ELSE Some(Interpolate(tl, when))

users_today(tl) == IF tl = << >> THEN None ELSE Some(tl[Len(tl)][2])

\* ---- Python floats: IEEE 754 binary64, round to nearest, ties to even ----
\* A magnitude is a natural number written in NumLimbs digits of base Radix,
\* least significant first, counting units of 2^-(FracLimbs * LimbBits): an
\* exact binary fixed-point number wide enough for every value the percentile
\* arithmetic meets (counts below Radix * 2, quotients from 2^-16 to 2^16).
LimbBits == 15
Radix == 2^LimbBits
FracLimbs == 5
IntLimbs == 2
NumLimbs == FracLimbs + IntLimbs
FracBits == FracLimbs * LimbBits
\* significant bits of a float
Mantissa == 53

\* a magnitude as an explicit tuple of its digits (each digit evaluated once)
Digits(f) == SubSeq(f, 1, NumLimbs)
Bit(x, i) == (x[i \div LimbBits + 1] \div 2^(i % LimbBits)) % 2
RECURSIVE BitLenInt(_)
BitLenInt(n) == IF n = 0 THEN 0 ELSE 1 + BitLenInt(n \div 2)
BitLen(x) ==
  LET K == { k \in 1..NumLimbs : x[k] # 0 }
  IN IF K = {} THEN 0 ELSE (SetMax(K) - 1) * LimbBits + BitLenInt(x[SetMax(K)])
\* bits 0 .. i-1 of x are all zero
LowBitsZero(x, i) ==
  \A k \in 1..NumLimbs :
    IF k - 1 < i \div LimbBits THEN x[k] = 0
    ELSE IF k - 1 = i \div LimbBits THEN (x[k] % 2^(i % LimbBits)) = 0
    ELSE TRUE
ClearLow(x, i) ==
  Digits([k \in 1..NumLimbs |->
     IF k - 1 < i \div LimbBits THEN 0
     ELSE IF k - 1 = i \div LimbBits THEN x[k] - (x[k] % 2^(i % LimbBits))
     ELSE x[k]])
PowerOfTwo(i) == Digits([k \in 1..NumLimbs |-> IF k - 1 = i \div LimbBits THEN 2^(i % LimbBits) ELSE 0])
One == PowerOfTwo(FracBits)
RECURSIVE Carry(_, _, _)
Carry(x, y, k) == IF k = 1 THEN 0 ELSE (x[k - 1] + y[k - 1] + Carry(x, y, k - 1)) \div Radix
Add(x, y) == Digits([k \in 1..NumLimbs |-> (x[k] + y[k] + Carry(x, y, k)) % Radix])
RECURSIVE Borrow(_, _, _)
Borrow(x, y, k) ==
  IF k = 1 THEN 0
  ELSE IF x[k - 1] - y[k - 1] - Borrow(x, y, k - 1) < 0 THEN 1 ELSE 0
\* x - y for x >= y
Sub(x, y) == Digits([k \in 1..NumLimbs |-> (x[k] - y[k] - Borrow(x, y, k) + Radix) % Radix])
RECURSIVE MulCarry(_, _, _)
MulCarry(x, c, k) == IF k = 1 THEN 0 ELSE (x[k - 1] * c + MulCarry(x, c, k - 1)) \div Radix
\* x * c for a small integer c
Times(x, c) == Digits([k \in 1..NumLimbs |-> (x[k] * c + MulCarry(x, c, k)) % Radix])
Less(x, y) ==
  LET D == { k \in 1..NumLimbs : x[k] # y[k] }
  IN D # {} /\ x[SetMax(D)] < y[SetMax(D)]

\* the float nearest to an exact value x (sticky: x stands for a value slightly
\* above it): keep Mantissa significant bits, round to nearest, ties to even
RoundToDouble(x, sticky) ==
  LET drop == BitLen(x) - Mantissa
  IN IF drop <= 0 THEN x
     ELSE LET kept == ClearLow(x, drop)
              guard == Bit(x, drop - 1) = 1
              rest == sticky \/ ~LowBitsZero(x, drop - 1)
              odd == Bit(x, drop) = 1
          IN IF guard /\ (rest \/ odd) THEN Add(kept, PowerOfTwo(drop)) ELSE kept

\* long division of the integers j / t (t > 0): the remainder left after the
\* fraction digit k, and the quotient cut off after FracLimbs digits
RECURSIVE DivRem(_, _, _)
DivRem(j, t, k) == IF k = FracLimbs + 1 THEN j % t ELSE (DivRem(j, t, k + 1) * Radix) % t
Quotient(j, t) ==
  Digits([k \in 1..NumLimbs |->
     IF k <= FracLimbs THEN (DivRem(j, t, k + 1) * Radix) \div t
     ELSE ((j \div t) \div Radix^(k - FracLimbs - 1)) % Radix])
\* joined/today
float_div(j, t) == RoundToDouble(Quotient(j, t), DivRem(j, t, 1) # 0)
\* 100*x
float_mul(c, x) == RoundToDouble(Times(x, c), FALSE)
\* round(x, 1) in tenths: the exact value of the float x, correctly rounded,
\* ties to the even tenth
round_1(x) ==
  LET y == Times(x, 10)
      whole == y[FracLimbs + 1] + Radix * y[FracLimbs + 2]
      half == Bit(y, FracBits - 1) = 1
      rest == ~LowBitsZero(y, FracBits - 1)
  IN IF half /\ (rest \/ whole % 2 = 1) THEN whole + 1 ELSE whole

\* (the ratio taken the wrong way round)
early_pct_Inverted(joined, today) ==
  IF ~Truthy(joined) \/ ~Truthy(today) THEN None
  ELSE Some(round_1(float_mul(100, float_div(Val(today), Val(joined)))))
\* early_pct / before_pct: `not joined or not today` is true of None and of 0
early_pct(joined, today) ==
  IF ~Truthy(joined) \/ ~Truthy(today) THEN None
  ELSE Some(round_1(float_mul(100, float_div(Val(joined), Val(today)))))

before_pct(joined, today) ==
  IF ~Truthy(joined) \/ ~Truthy(today) THEN None
  ELSE LET q == float_div(Val(joined), Val(today))
           neg == Less(One, q)
           d == RoundToDouble(IF neg THEN Sub(q, One) ELSE Sub(One, q), FALSE)
           x == float_mul(100, d)
       IN Some(IF neg THEN 0 - round_1(x) ELSE round_1(x))

\* a time of day is a half-day on the date axis; .date() drops it
HalvesPerDay == 2
DateOf(now) == now \div HalvesPerDay
\* round(u / 1_000_000, 3), in thousandths of a million
PerMilli == 1000
Millions(u) == RoundHalfEven(u, PerMilli)
\* tl[-1][0].date() < today
LastBefore_OrSame(d, today) == d <= today
LastBefore(d, today) == d < today
\* timeline_series on a parsed timeline: its points <<x, y>> in order
timeline_series(tl, now) ==
  IF tl = << >> THEN << >>
  ELSE LET pts == [i \in 1..Len(tl) |-> << tl[i][1], Millions(tl[i][2]) >>]
           today == DateOf(now)
       IN IF LastBefore(tl[Len(tl)][1], today)
            THEN Append(pts, << today, Millions(tl[Len(tl)][2]) >>)
            ELSE pts

\* ---- the curve arithmetic applied to bounded inputs ----
MaxPoints == 3
MaxDate == 4
UserCounts == { 0, 3, 6000 }
\* the current time: morning or afternoon of a day around the last date a
\* timeline may hold
NowTimes == { HalvesPerDay * d + h : d \in (MaxDate - 1)..(MaxDate + 1), h \in 0..(HalvesPerDay - 1) }
RowSeqs == UNION { [1..n -> (0..MaxDate) \X UserCounts] : n \in 0..MaxPoints }
\* the data model's timelines: dates unique (rows in any order in the file)
FileTimelines == { r \in RowSeqs : \A i, j \in 1..Len(r) : i # j => r[i][1] # r[j][1] }

CurveIdle ==
  /\ cv_rows = << >> /\ cv_when = 0 /\ cv_pc = "off" /\ cv_tl = << >>
  /\ cv_joined = None /\ cv_today = None /\ cv_pct = None /\ cv_narr = None
  /\ cv_now = 0 /\ cv_series = << >>

CurveInit ==
  /\ cv_rows \in FileTimelines
  /\ cv_when \in (0 - 1)..(MaxDate + 1)
  /\ cv_pc = "parse" /\ cv_tl = << >>
  /\ cv_joined = None /\ cv_today = None /\ cv_pct = None /\ cv_narr = None
  /\ cv_now = 0 /\ cv_series = << >>

CvParse ==
  /\ UNCHANGED << scanvars, appvars, pagevars >>
  /\ cv_pc = "parse"
  /\ cv_tl' = SortByDate(cv_rows)
  /\ cv_pc' = "lookup"
  /\ UNCHANGED << cv_rows, cv_when, cv_joined, cv_today, cv_pct, cv_narr, cv_now, cv_series >>

CvLookup ==
  /\ UNCHANGED << scanvars, appvars, pagevars >>
  /\ cv_pc = "lookup"
  /\ cv_joined' = users_at(cv_tl, cv_when)
  /\ cv_today' = users_today(cv_tl)
  /\ cv_pc' = "pct"
  /\ UNCHANGED << cv_rows, cv_when, cv_tl, cv_pct, cv_narr, cv_now, cv_series >>

CvPct ==
  /\ UNCHANGED << scanvars, appvars, pagevars >>
  /\ cv_pc = "pct"
  /\ cv_pct' = early_pct(cv_joined, cv_today)
  /\ cv_narr' = before_pct(cv_joined, cv_today)
  /\ cv_pc' = "done"
  /\ UNCHANGED << cv_rows, cv_when, cv_tl, cv_joined, cv_today, cv_now, cv_series >>

\* timeline_series(key), at whatever time the request runs
CvSeries ==
  /\ UNCHANGED << scanvars, appvars, pagevars >>
  /\ cv_pc = "done"
  /\ \E now \in NowTimes :
       /\ cv_now' = now
       /\ cv_series' = timeline_series(cv_tl, now)
  /\ cv_pc' = "series"
  /\ UNCHANGED << cv_rows, cv_when, cv_tl, cv_joined, cv_today, cv_pct, cv_narr >>

CurveNext == CvParse \/ CvLookup \/ CvPct \/ CvSeries

(***************************************************************************)
(* PART 3.  app.py: the process, the session and the results() request.    *)
(* Timestamps are whole UTC days since 1970-01-01 (epoch milliseconds      *)
(* divided by 86 400 000); calendar dates are <<year, month, day>>.        *)
(***************************************************************************)
\* datetime(y, m, d, tzinfo=utc).timestamp(): the proleptic Gregorian day number
days_from_civil(y, m, d) ==
  LET yy  == IF m <= 2 THEN y - 1 ELSE y
      era == yy \div 400
      yoe == yy - era * 400
      mp  == IF m > 2 THEN m - 3 ELSE m + 9
      doy == ((153 * mp + 2) \div 5) + d - 1
      doe == yoe * 365 + (yoe \div 4) - (yoe \div 100) + doy
  IN era * 146097 + doe - 719468

\* datetime.fromtimestamp(ms / 1000, tz=utc).date()
civil_from_days(z) ==
  LET zz  == z + 719468
      era == zz \div 146097
      doe == zz - era * 146097
      yoe == (doe - (doe \div 1460) + (doe \div 36524) - (doe \div 146096)) \div 365
      doy == doe - (365 * yoe + (yoe \div 4) - (yoe \div 100))
      mp  == (5 * doy + 2) \div 153
      d   == doy - ((153 * mp + 2) \div 5) + 1
      m   == IF mp < 10 THEN mp + 3 ELSE mp - 9
  IN << yoe + era * 400 + (IF m <= 2 THEN 1 ELSE 0), m, d >>

Abs(x) == IF x < 0 THEN 0 - x ELSE x
\* abs((m_d.year*12 + m_d.month) - (g_d.year*12 + g_d.month))
abs_month_diff(a, b) ==
  LET ca == civil_from_days(a)
      cb == civil_from_days(b)
  IN Abs((ca[1] * 12 + ca[2]) - (cb[1] * 12 + cb[2]))

\* the reconciliation threshold of line 378
Confirming_Inclusive(m_ms, g_ms) == abs_month_diff(m_ms, g_ms) <= 12
Confirming(m_ms, g_ms) == abs_month_diff(m_ms, g_ms) < 12

\* the platforms of a request: the first two of the nine platform_keys
platform_keys == << "facebook", "twitter" >>
Keys == { platform_keys[i] : i \in 1..Len(platform_keys) }
CurveKeys == Keys \cup { "gmail" }

\* ---- the dataset ----
Curve(ld, rows, bad) == [launch_date |-> ld, timeline |-> rows, bad |-> bad]
CurveZeroStart ==
  Curve(Some(days_from_civil(2009, 6, 1)),
        << << days_from_civil(2009, 6, 1), 0 >>, << days_from_civil(2010, 6, 1), 100 >>,
           << days_from_civil(2012, 1, 1), 400 >> >>, FALSE)
CurveNoLaunch ==
  Curve(None, << << days_from_civil(2012, 1, 1), 300 >>,
                 << days_from_civil(2009, 1, 1), 20 >> >>, FALSE)
CurveDecline ==
  Curve(Some(days_from_civil(2008, 1, 1)),
        << << days_from_civil(2009, 1, 1), 50 >>, << days_from_civil(2010, 1, 1), 500 >>,
           << days_from_civil(2012, 1, 1), 400 >> >>, FALSE)
CurveEmpty == Curve(None, << >>, FALSE)
\* a row whose date or count does not parse
CurveBadRow == Curve(None, << << days_from_civil(2009, 1, 1), 20 >> >>, TRUE)

NoCurves == [k \in CurveKeys |-> None]
Datasets ==
  { [k \in CurveKeys |-> IF k = "facebook" THEN f ELSE IF k = "twitter" THEN t ELSE g] :
      f \in { Some(CurveZeroStart), Some(CurveDecline), None },
      t \in { Some(CurveNoLaunch), Some(CurveEmpty), Some(CurveBadRow) },
      g \in { Some(CurveNoLaunch), None } }

\* ---- request inputs ----
Num(n) == [kind |-> "num", n |-> n]
Absent == [kind |-> "absent", n |-> 0]
Junk == [kind |-> "junk", n |-> 0]
FormChoices ==
  { [m |-> Absent, y |-> Absent], [m |-> Num(1), y |-> Num(2010)],
    [m |-> Num(3), y |-> Num(2008)], [m |-> Num(13), y |-> Num(2010)],
    [m |-> Junk, y |-> Num(2010)] }
Forms == [Keys -> FormChoices]
DetectedDates == { << 2009, 1, 31 >>, << 2009, 2, 1 >>, << 2010, 12, 31 >>, << 2011, 1, 1 >> }
DetectedTs == { Some(days_from_civil(c[1], c[2], c[3])) : c \in DetectedDates } \cup { None }
BaselineTs == { None, Some(days_from_civil(2008, 5, 5)) }

\* session["google_token"] as get_google_credentials sees it (lines 311-321):
\* no token or no gmail scope gives None; a token the store accepts; a token the
\* store rejects (invalid, expired and not refreshable, revoked)
Tokens == { None, Some("valid"), Some("rejected") }
\* how one call of gmail_oldest_for_query or gmail_first_msg_ms ends
Raises == [raised |-> TRUE, ts |-> None]
Found(ts) == [raised |-> FALSE, ts |-> ts]
\* every WELCOME_QUERY_SETS entry lists two queries
NumQueries == 2
\* the oldest hit of the platform's i-th query: the first query finds the
\* month-end dates, the second the first-of-month dates
QueryTs(i) ==
  { None } \cup { t \in DetectedTs \ { None } : (civil_from_days(Val(t))[3] = 1) <=> (i = 2) }
\* with a rejected token every call to the store raises (RefreshError, HttpError 401)
QueryOutcomes(tok, i) ==
  IF tok = "rejected" THEN { Raises } ELSE { Raises } \cup { Found(t) : t \in QueryTs(i) }
BaselineOutcomes(tok) ==
  IF tok = "rejected" THEN { Raises } ELSE { Raises } \cup { Found(t) : t \in BaselineTs }

\* gmail_oldest_from_queries (lines 213-224): a query that raises counts as None
Caught(out) == IF out.raised THEN None ELSE out.ts
RECURSIVE LastFrom(_, _)
LastFrom(outs, best) ==
  IF outs = << >> THEN best
  ELSE LastFrom(Tail(outs), IF Caught(Head(outs)) # None THEN Caught(Head(outs)) ELSE best)
RECURSIVE OldestFrom(_, _)
OldestFrom(outs, best) ==
  IF outs = << >> THEN best
  ELSE LET ts == Caught(Head(outs))
       IN OldestFrom(Tail(outs),
                     IF ts # None /\ (best = None \/ Val(ts) < Val(best))
                       THEN ts ELSE best)
gmail_oldest_from_queries_Last(outs) == LastFrom(outs, None)
gmail_oldest_from_queries(outs) == OldestFrom(outs, None)

\* `if m and y:` then int(datetime(int(y), int(m), 1, tzinfo=utc).timestamp()*1000)
\* under try/except, then `if ms:` (lines 282-287 and 331-336)
ParseJoin_NoRangeCheck(f) ==
  IF f.m.kind # "num" \/ f.y.kind # "num" THEN None
  ELSE Some(days_from_civil(f.y.n, f.m.n, 1))
ParseJoin(f) ==
  IF f.m.kind = "absent" \/ f.y.kind = "absent" THEN None
  ELSE IF f.m.kind # "num" \/ f.y.kind # "num" THEN None
  ELSE IF f.m.n \notin 1..12 \/ f.y.n \notin 1..9999 THEN None
  ELSE LET ms == days_from_civil(f.y.n, f.m.n, 1)
       IN IF ms = 0 THEN None ELSE Some(ms)
ManualOf(form) == [k \in Keys |-> ParseJoin(form[k])]

\* (an entry that is verified whatever the branch)
Entry_AlwaysVerified(ts, v, hint) == [date_ms |-> ts, verified |-> TRUE, email_hint_ms |-> hint]
Entry(ts, v, hint) == [date_ms |-> ts, verified |-> v, email_hint_ms |-> hint]
\* (the resolver without its manual-only branch)
Resolve_NoManualOnly(m_ms, g_ms) ==
  IF Truthy(m_ms) /\ Truthy(g_ms)
    THEN IF Confirming(Val(m_ms), Val(g_ms))
           THEN Some(Entry(Val(g_ms), TRUE, None))
           ELSE Some(Entry(Val(m_ms), FALSE, g_ms))
  ELSE IF Truthy(g_ms) THEN Some(Entry(Val(g_ms), TRUE, None))
  ELSE None
\* the body of the loop of lines 373-385, for one platform
Resolve(m_ms, g_ms) ==
  IF Truthy(m_ms) /\ Truthy(g_ms)
    THEN IF Confirming(Val(m_ms), Val(g_ms))
           THEN Some(Entry(Val(g_ms), TRUE, None))
           ELSE Some(Entry(Val(m_ms), FALSE, g_ms))
  ELSE IF Truthy(g_ms) THEN Some(Entry(Val(g_ms), TRUE, None))
  ELSE IF Truthy(m_ms) THEN Some(Entry(Val(m_ms), FALSE, None))
  ELSE None
ResolveAll(man, hits) == [k \in Keys |-> Resolve(man[k], hits[k])]

Call(k, ts, v, hint) == [key |-> k, ts |-> ts, verified |-> v, email_hint_ms |-> hint]
\* lines 391-393: resolved.items() in insertion order, skipping keys not in CURVES
RECURSIVE ResolvedCalls(_, _, _)
ResolvedCalls(res, curves, i) ==
  IF i > Len(platform_keys) THEN << >>
  ELSE LET k == platform_keys[i]
       IN (IF res[k] # None /\ curves[k] # None
             THEN << Call(k, Val(res[k]).date_ms, Val(res[k]).verified,
                          Val(res[k]).email_hint_ms) >>
             ELSE << >>) \o ResolvedCalls(res, curves, i + 1)
\* lines 388-393: the gmail baseline card first, then the resolved platforms
CardCalls(res, curves, base) ==
  (IF Truthy(base) THEN << Call("gmail", Val(base), TRUE, None) >> ELSE << >>)
    \o ResolvedCalls(res, curves, 1)

\* ---- add_card ----
Rows(curves, k) == IF curves[k] = None THEN << >> ELSE Val(curves[k]).timeline
parse_timeline(curves, k) == SortByDate(Rows(curves, k))
launch_date(curves, k) ==
  IF curves[k] # None /\ Val(curves[k]).launch_date # None THEN Val(curves[k]).launch_date
  ELSE IF parse_timeline(curves, k) # << >> THEN Some(parse_timeline(curves, k)[1][1])
  ELSE None
\* lines 451-453
Clamp_None(ts, ld) == ts
Clamp(ts, ld) == IF ld # None /\ ts < Val(ld) THEN Val(ld) ELSE ts
\* what one add_card call computes up to line 456
AddCardEval(curves, c) ==
  LET tl == parse_timeline(curves, c.key)
      ld == launch_date(curves, c.key)
      ts == Clamp(c.ts, ld)
      joined_u == users_at(tl, ts)
      today_u == users_today(tl)
  IN [key |-> c.key, ts_in |-> c.ts, ld |-> ld, ts |-> ts, joined_u |-> joined_u,
      today_u |-> today_u, pct |-> early_pct(joined_u, today_u),
      verified |-> c.verified]
BadRows(curves, k) == curves[k] # None /\ Val(curves[k]).bad

RECURSIVE SeqSum(_)
SeqSum(q) == IF q = << >> THEN 0 ELSE Head(q) + SeqSum(Tail(q))
\* round(100*(sum([p/100.0 for p in pcts])/len(pcts)), 1) if pcts else None
Score(pcts) == IF pcts = << >> THEN None ELSE Some(RoundHalfEven(SeqSum(pcts), Len(pcts)))

AppIdle ==
  /\ proc = "off" /\ curves_file = "ok" /\ file_curves = NoCurves /\ CURVES = NoCurves
  /\ session_manual = [k \in Keys |-> None] /\ rpc = "idle"
  /\ manual = [k \in Keys |-> None] /\ gmail_hits = [k \in Keys |-> None]
  /\ gmail_baseline = None /\ resolved = [k \in Keys |-> None]
  /\ queue = << >> /\ platforms = << >> /\ all_pcts = << >> /\ v_pcts = << >>
  /\ score_all = None /\ score_verified = None /\ calls = << >>
  /\ form_in = [k \in Keys |-> [m |-> Absent, y |-> Absent]]
  /\ creds = None /\ scan_k = 0 /\ scan_outs = << >>
  /\ scan_failed = { }

AppInit ==
  /\ proc = "boot"
  /\ curves_file \in { "ok", "missing", "badjson" }
  /\ file_curves \in (IF curves_file = "ok" THEN Datasets ELSE { NoCurves })
  /\ CURVES = NoCurves
  /\ session_manual = [k \in Keys |-> None] /\ rpc = "idle"
  /\ manual = [k \in Keys |-> None] /\ gmail_hits = [k \in Keys |-> None]
  /\ gmail_baseline = None /\ resolved = [k \in Keys |-> None]
  /\ queue = << >> /\ platforms = << >> /\ all_pcts = << >> /\ v_pcts = << >>
  /\ score_all = None /\ score_verified = None /\ calls = << >>
  /\ form_in = [k \in Keys |-> [m |-> Absent, y |-> Absent]]
  /\ creds = None /\ scan_k = 0 /\ scan_outs = << >>
  /\ scan_failed = { }

scan_locals == << creds, scan_k, scan_outs, scan_failed >>
request_locals == << manual, gmail_hits, gmail_baseline, resolved, queue, platforms,
                     all_pcts, v_pcts, score_all, score_verified, calls, scan_locals >>

\* import of app.py: CURVES = json.load(open(DATA_PATH)) (lines 85-86)
LoadCurves ==
  /\ UNCHANGED << scanvars, curvevars, pagevars >>
  /\ proc = "boot" /\ curves_file = "ok"
  /\ CURVES' = file_curves
  /\ proc' = "up"
  /\ UNCHANGED << curves_file, file_curves, session_manual, form_in, rpc, request_locals >>

\* open() raises FileNotFoundError or json.load raises JSONDecodeError: nothing
\* catches it, the import fails and the process ends
LoadCurvesFails ==
  /\ UNCHANGED << scanvars, curvevars, pagevars >>
  /\ proc = "boot" /\ curves_file # "ok"
  /\ proc' = "crashed"
  /\ UNCHANGED << curves_file, file_curves, CURVES, session_manual, form_in, rpc,
                  request_locals >>

\* POST /save_manual (lines 274-289)
SaveManual ==
  /\ UNCHANGED << scanvars, curvevars, pagevars >>
  /\ proc = "up" /\ rpc = "idle"
  /\ \E form \in Forms :
       /\ form_in' = form
       /\ session_manual' = ManualOf(form)
  /\ UNCHANGED << proc, curves_file, file_curves, CURVES, rpc, request_locals >>

\* results() up to line 340, given the manual entries of the request:
\* gmail_hits = {} and creds = get_google_credentials()
ResultsBegin(man) ==
  \E tok \in Tokens :
    /\ manual' = man
    /\ creds' = tok
    /\ gmail_hits' = [k \in Keys |-> None]
    /\ gmail_baseline' = None
    /\ scan_k' = 1 /\ scan_outs' = << >> /\ scan_failed' = { }
    /\ resolved' = [k \in Keys |-> None] /\ queue' = << >>
    /\ platforms' = << >> /\ all_pcts' = << >> /\ v_pcts' = << >>
    /\ score_all' = None /\ score_verified' = None /\ calls' = << >>
    /\ rpc' = "scan"

\* lines 372-387: resolve every platform and line up the add_card calls
ToCards(hits, base) ==
  /\ resolved' = ResolveAll(manual, hits)
  /\ queue' = CardCalls(ResolveAll(manual, hits), CURVES, base)
  /\ rpc' = "cards"

\* GET /results: manual = session.get("manual_entries", {}) (line 326)
ResultsGet ==
  /\ UNCHANGED << scanvars, curvevars, pagevars >>
  /\ proc = "up" /\ rpc = "idle"
  /\ ResultsBegin(session_manual)
  /\ UNCHANGED << proc, curves_file, file_curves, CURVES, session_manual, form_in >>

\* POST /results: manual is parsed from the form and stored in the session (lines 328-337)
ResultsPost ==
  /\ UNCHANGED << scanvars, curvevars, pagevars >>
  /\ proc = "up" /\ rpc = "idle"
  /\ \E form \in Forms :
       /\ form_in' = form
       /\ session_manual' = ManualOf(form)
       /\ ResultsBegin(ManualOf(form))
  /\ UNCHANGED << proc, curves_file, file_curves, CURVES >>

\* `if creds:` false at lines 341 and 353: nothing is scanned
NoCredentials ==
  /\ UNCHANGED << scanvars, curvevars, pagevars >>
  /\ rpc = "scan" /\ creds = None
  /\ ToCards(gmail_hits, gmail_baseline)
  /\ UNCHANGED << proc, curves_file, file_curves, CURVES, session_manual, form_in, manual,
                  gmail_hits, gmail_baseline, platforms, all_pcts, v_pcts, score_all,
                  score_verified, calls, scan_locals >>

\* one turn of the loop of lines 343-350: the platform's queries are run by
\* gmail_oldest_from_queries, which catches every Exception of a query; the
\* try/except of lines 346-349 has nothing left to catch; `if ts:` keeps a hit
ScanPlatform ==
  /\ UNCHANGED << scanvars, curvevars, pagevars >>
  /\ rpc = "scan" /\ creds # None /\ scan_k <= Len(platform_keys)
  /\ \E outs \in { o \in [1..NumQueries -> UNION { QueryOutcomes(Val(creds), i) : i \in 1..NumQueries }] :
                      \A i \in 1..NumQueries : o[i] \in QueryOutcomes(Val(creds), i) } :
       LET k == platform_keys[scan_k]
           ts == gmail_oldest_from_queries(outs)
       IN /\ gmail_hits' = IF Truthy(ts) THEN [gmail_hits EXCEPT ![k] = ts] ELSE gmail_hits
          /\ scan_outs' = outs
          /\ scan_failed' = IF \A i \in 1..NumQueries : outs[i].raised
                              THEN scan_failed \cup { k } ELSE scan_failed
  /\ scan_k' = scan_k + 1
  /\ UNCHANGED << proc, curves_file, file_curves, CURVES, session_manual, form_in, rpc,
                  manual, gmail_baseline, resolved, queue, platforms, all_pcts, v_pcts,
                  score_all, score_verified, calls, creds >>

\* lines 352-355: gmail_first_msg_ms under try/except (a failure is printed),
\* then the resolution
ScanBaseline ==
  /\ UNCHANGED << scanvars, curvevars, pagevars >>
  /\ rpc = "scan" /\ creds # None /\ scan_k > Len(platform_keys)
  /\ \E out \in BaselineOutcomes(Val(creds)) :
       /\ gmail_baseline' = Caught(out)
       /\ ToCards(gmail_hits, Caught(out))
  /\ scan_outs' = << >>
  /\ UNCHANGED << proc, curves_file, file_curves, CURVES, session_manual, form_in, manual,
                  gmail_hits, platforms, all_pcts, v_pcts, score_all, score_verified,
                  calls, creds, scan_k, scan_failed >>

\* add_card on a platform whose rows do not parse: strptime/int raise ValueError
\* in parse_timeline, which nothing catches (lines 416, 451, 389-393)
AddCardBadRow ==
  /\ UNCHANGED << scanvars, curvevars, pagevars >>
  /\ rpc = "cards" /\ queue # << >>
  /\ BadRows(CURVES, Head(queue).key)
  /\ rpc' = "raised"
  /\ UNCHANGED << proc, curves_file, file_curves, CURVES, session_manual, form_in,
                  request_locals >>

\* add_card returning at line 455: `if not (joined_u and today_u): return`
AddCardSkip ==
  /\ UNCHANGED << scanvars, curvevars, pagevars >>
  /\ rpc = "cards" /\ queue # << >>
  /\ ~BadRows(CURVES, Head(queue).key)
  /\ LET e == AddCardEval(CURVES, Head(queue))
     IN /\ ~(Truthy(e.joined_u) /\ Truthy(e.today_u))
        /\ calls' = Append(calls, e)
  /\ queue' = Tail(queue)
  /\ UNCHANGED << proc, curves_file, file_curves, CURVES, session_manual, form_in, rpc,
                  manual, gmail_hits, gmail_baseline, resolved, platforms, all_pcts,
                  v_pcts, score_all, score_verified, scan_locals >>

\* add_card past line 455: the percentile is appended (lines 456-459), then the
\* card literal calls ms_to_pretty (line 468), which the nested def of line 480
\* makes a local of add_card, still unbound: UnboundLocalError.  Nothing catches
\* it in results(), no card is appended and the request fails
AddCardUnbound ==
  /\ UNCHANGED << scanvars, curvevars, pagevars >>
  /\ rpc = "cards" /\ queue # << >>
  /\ ~BadRows(CURVES, Head(queue).key)
  /\ LET e == AddCardEval(CURVES, Head(queue))
     IN /\ Truthy(e.joined_u) /\ Truthy(e.today_u)
        /\ calls' = Append(calls, e)
        /\ all_pcts' = IF e.pct # None THEN Append(all_pcts, Val(e.pct)) ELSE all_pcts
        /\ v_pcts' = IF e.pct # None /\ e.verified THEN Append(v_pcts, Val(e.pct))
                     ELSE v_pcts
  /\ rpc' = "raised"
  /\ UNCHANGED << proc, curves_file, file_curves, CURVES, session_manual, form_in, manual,
                  gmail_hits, gmail_baseline, resolved, queue, platforms,
                  score_all, score_verified, scan_locals >>

\* every add_card call returned: the composite scores and the response (lines 395-412)
Finish ==
  /\ UNCHANGED << scanvars, curvevars, pagevars >>
  /\ rpc = "cards" /\ queue = << >>
  /\ score_all' = Score(all_pcts)
  /\ score_verified' = Score(v_pcts)
  /\ rpc' = "done"
  /\ UNCHANGED << proc, curves_file, file_curves, CURVES, session_manual, form_in, manual,
                  gmail_hits, gmail_baseline, resolved, queue, platforms, all_pcts,
                  v_pcts, calls, scan_locals >>

\* the response (the page, or the 500 of an uncaught exception) is sent: the
\* locals of the request are gone
Respond ==
  /\ UNCHANGED << scanvars, curvevars, pagevars >>
  /\ rpc \in { "done", "raised" }
  /\ rpc' = "idle"
  /\ manual' = [k \in Keys |-> None] /\ gmail_hits' = [k \in Keys |-> None]
  /\ gmail_baseline' = None /\ resolved' = [k \in Keys |-> None]
  /\ queue' = << >> /\ platforms' = << >> /\ all_pcts' = << >> /\ v_pcts' = << >>
  /\ score_all' = None /\ score_verified' = None /\ calls' = << >>
  /\ creds' = None /\ scan_k' = 0 /\ scan_outs' = << >>
  /\ scan_failed' = { }
  /\ UNCHANGED << proc, curves_file, file_curves, CURVES, session_manual, form_in >>

AppNext ==
  \/ LoadCurves \/ LoadCurvesFails
  \/ SaveManual \/ ResultsGet \/ ResultsPost
  \/ NoCredentials \/ ScanPlatform \/ ScanBaseline
  \/ AddCardBadRow \/ AddCardSkip \/ AddCardUnbound
  \/ Finish \/ Respond

(***************************************************************************)
(* PART 3b.  app.py: gmail_oldest_for_query and the page loop of           *)
(* gmail_first_msg_ms, one query's pages.                                  *)
(* A message id is <<page, position>>; the store lists newest first.       *)
(***************************************************************************)
\* `pages > 50` (line 206)
PageCap == 50
\* messages on a page that has any (maxResults)
PerPage == 2
PageCounts == { 1, 2, 3, PageCap, PageCap + 1, PageCap + 2 }
\* no page empty; the final page empty; every page empty; every page but the first empty
EmptySets(n) == { { }, { n }, 1..n, (1..n) \ { 1 } }

\* resp.get("messages", []) of the i-th page
PageIds(i) == IF i \in pg_empty THEN << >> ELSE [j \in 1..PerPage |-> << i, j >>]
\* resp.get("nextPageToken"): every page but the final one carries a token
NextPageToken(i) == IF i < pg_n THEN Some(i + 1) ELSE None
\* messages().get(id=...)["internalDate"]: later pages and positions are older
internalDate(id) == (pg_n - id[1]) * PerPage + (PerPage - id[2]) + 1
PastCap_Never(n) == FALSE
PastCap(n) == n > PageCap
\* (the loop that ends on a missing token only)
LoopEnds_TokenOnly(tok, n) == tok = None
\* `if not page or pages > 50: break` (line 206)
LoopEnds(tok, n) == tok = None \/ PastCap(n)

PageIdle ==
  /\ pg_n = 0 /\ pg_empty = { } /\ pg_pc = "off" /\ page = None /\ last = None
  /\ pages = 0 /\ pg_result = None

PageInit ==
  /\ pg_n \in PageCounts
  /\ pg_empty \in EmptySets(pg_n)
  /\ pg_pc \in { "loop", "fm_loop" }
  /\ page = None /\ last = None /\ pages = 0 /\ pg_result = None

\* one turn of the while loop (lines 199-207)
PgList ==
  /\ UNCHANGED << scanvars, curvevars, appvars >>
  /\ pg_pc = "loop"
  /\ LET i == IF page = None THEN 1 ELSE Val(page)
         ids == PageIds(i)
     IN /\ last' = IF ids # << >> THEN Some(ids[Len(ids)]) ELSE last
        /\ page' = NextPageToken(i)
        /\ pages' = pages + 1
        /\ pg_pc' = IF LoopEnds(NextPageToken(i), pages + 1) THEN "after" ELSE "loop"
  /\ UNCHANGED << pg_n, pg_empty, pg_result >>

\* `if not last: return None` (lines 208-209)
PgReturnNone ==
  /\ UNCHANGED << scanvars, curvevars, appvars >>
  /\ pg_pc = "after" /\ last = None
  /\ pg_result' = None /\ pg_pc' = "returned"
  /\ UNCHANGED << pg_n, pg_empty, page, last, pages >>

\* the get call and the return of internalDate (lines 210-211)
PgReturnDate ==
  /\ UNCHANGED << scanvars, curvevars, appvars >>
  /\ pg_pc = "after" /\ last # None
  /\ pg_result' = Some(internalDate(Val(last))) /\ pg_pc' = "returned"
  /\ UNCHANGED << pg_n, pg_empty, page, last, pages >>

\* gmail_first_msg_ms from line 142 on, its query built from the day
\* gmail_find_first_day returned: one turn of its while loop (lines 143-148).
\* The function has no page counter; `pages` counts its list calls here
FmList ==
  /\ UNCHANGED << scanvars, curvevars, appvars >>
  /\ pg_pc = "fm_loop"
  /\ LET i == IF page = None THEN 1 ELSE Val(page)
         ids == PageIds(i)
     IN /\ last' = IF ids # << >> THEN Some(ids[Len(ids)]) ELSE last
        /\ page' = NextPageToken(i)
        /\ pages' = pages + 1
        /\ pg_pc' = IF NextPageToken(i) = None THEN "fm_after" ELSE "fm_loop"
  /\ UNCHANGED << pg_n, pg_empty, pg_result >>

\* `if not last: return None` (line 149)
FmReturnNone ==
  /\ UNCHANGED << scanvars, curvevars, appvars >>
  /\ pg_pc = "fm_after" /\ last = None
  /\ pg_result' = None /\ pg_pc' = "fm_returned"
  /\ UNCHANGED << pg_n, pg_empty, page, last, pages >>

\* the get call and the return of internalDate (lines 150-151)
FmReturnDate ==
  /\ UNCHANGED << scanvars, curvevars, appvars >>
  /\ pg_pc = "fm_after" /\ last # None
  /\ pg_result' = Some(internalDate(Val(last))) /\ pg_pc' = "fm_returned"
  /\ UNCHANGED << pg_n, pg_empty, page, last, pages >>

PageNext ==
  \/ PgList \/ PgReturnNone \/ PgReturnDate
  \/ FmList \/ FmReturnNone \/ FmReturnDate

Init == AppInit /\ ScanIdle /\ CurveIdle /\ PageIdle
Spec == Init /\ [][AppNext]_vars
InitScan == ScanInit /\ CurveIdle /\ AppIdle /\ PageIdle
SpecScan == InitScan /\ [][ScanNext]_vars
InitCurve == CurveInit /\ ScanIdle /\ AppIdle /\ PageIdle
SpecCurve == InitCurve /\ [][CurveNext]_vars
InitPage == PageInit /\ ScanIdle /\ CurveIdle /\ AppIdle
SpecPage == InitPage /\ [][PageNext]_vars

(***************************************************************************)
(* PART 4.  The claims.                                                    *)
(***************************************************************************)
\* the matching items of tier q that lie in the search window [start, end)
Window(q) == { i \in items[q] : start_dt0 <= i /\ i < end_dt }

\* C1: a locator call that ends by window convergence returns None only when no
\* matching item lies in the window, and otherwise a timestamp within one day of
\* the day D of the earliest matching item in the window.
C1_WithinOneDay ==
  (spc = "ret" /\ ended = "converged") =>
     IF Window(pass_ix) = {} THEN best_ts = None
     ELSE /\ best_ts # None
          /\ Val(best_ts) >= (DayOf(SetMin(Window(pass_ix))) - 1) * TicksPerDay
          /\ Val(best_ts) < (DayOf(SetMin(Window(pass_ix))) + 2) * TicksPerDay

\* the hits returned by the locator calls made so far
TierHits == { Val(tier_ts[i]) : i \in { j \in 1..Len(tier_ts) : Truthy(tier_ts[j]) } }

\* C2: once some tier has returned a hit, the scan ends with a result, and the
\* result is the minimum of the hits of the tiers attempted; with no hit at all
\* the result is absent.
C2_KeepsMinimum ==
  (spc \in { "returned", "raised" }) =>
     IF TierHits = {} THEN spc = "returned" => overall_best = None
     ELSE spc = "returned" /\ overall_best = Some(SetMin(TierHits))

\* C9: a probe or fetch that raises does not leave the locator or the scanner:
\* the scan never ends in an exception.
C9_ProbeFailureAbsorbed == spc # "raised"

\* the <<year, month>> pairs and dates the inputs of a request were built from
ManualMonths == { << f.y.n, f.m.n >> : f \in { g \in FormChoices : ParseJoin(g) # None } }
MonthOfManual(ts) == CHOOSE c \in ManualMonths : days_from_civil(c[1], c[2], 1) = ts
DateOfDetected(ts) == CHOOSE c \in DetectedDates : days_from_civil(c[1], c[2], c[3]) = ts
MonthDistance(m_ms, g_ms) ==
  Abs((MonthOfManual(m_ms)[1] * 12 + MonthOfManual(m_ms)[2])
      - (DateOfDetected(g_ms)[1] * 12 + DateOfDetected(g_ms)[2]))
InRequest == rpc \in { "cards", "done", "raised" }

\* C3: with both timestamps present, a calendar-month distance below 12 gives
\* {detected, verified, no hint}; a distance of 12 or more gives
\* {manual, not verified, hint = detected}.
C3_Reconcile ==
  InRequest =>
    \A k \in Keys :
      (manual[k] # None /\ gmail_hits[k] # None) =>
         IF MonthDistance(Val(manual[k]), Val(gmail_hits[k])) < 12
           THEN resolved[k] = Some(Entry(Val(gmail_hits[k]), TRUE, None))
           ELSE resolved[k] = Some(Entry(Val(manual[k]), FALSE, gmail_hits[k]))

\* a request in which one platform is 11 months apart and confirmed, the other
\* 12 months apart and distrusted
C3_Witness ==
  /\ InRequest
  /\ \E k1, k2 \in Keys :
       /\ manual[k1] # None /\ gmail_hits[k1] # None
       /\ manual[k2] # None /\ gmail_hits[k2] # None
       /\ MonthDistance(Val(manual[k1]), Val(gmail_hits[k1])) = 11
       /\ MonthDistance(Val(manual[k2]), Val(gmail_hits[k2])) = 12
       /\ Val(resolved[k1]).verified /\ ~Val(resolved[k2]).verified

\* the platforms add_card was or will be called for in this request
CalledKeys == { calls[i].key : i \in 1..Len(calls) } \cup { queue[i].key : i \in 1..Len(queue) }

\* C4: a platform has a resolved entry exactly when a manual or a detected
\* timestamp is present; detected alone gives {detected, verified}, manual alone
\* {manual, not verified}; a platform with neither has no entry, no add_card
\* call, no card and no percentile.
C4_EntryIffPresent ==
  InRequest =>
    \A k \in Keys :
      /\ (resolved[k] # None) <=> (manual[k] # None \/ gmail_hits[k] # None)
      /\ (manual[k] = None /\ gmail_hits[k] # None)
           => resolved[k] = Some(Entry(Val(gmail_hits[k]), TRUE, None))
      /\ (manual[k] # None /\ gmail_hits[k] = None)
           => resolved[k] = Some(Entry(Val(manual[k]), FALSE, None))
      /\ (manual[k] = None /\ gmail_hits[k] = None)
           => (k \notin CalledKeys /\ \A i \in 1..Len(platforms) : platforms[i].key # k)

\* a request, its add_card calls under way, with one platform that has neither
\* timestamp and one that has only a manual one
C4_Witness ==
  /\ InRequest /\ calls # << >>
  /\ \E k1, k2 \in Keys :
       /\ manual[k1] = None /\ gmail_hits[k1] = None
       /\ manual[k2] # None /\ gmail_hits[k2] = None /\ resolved[k2] # None

\* C5: add_card replaces a timestamp earlier than the platform's launch date by
\* the launch date before it computes users and percentile: the timestamp it
\* uses is never before the launch date, and joined_users and the percentile are
\* those of the clamped timestamp.
C5_ClampToLaunch ==
  \A i \in 1..Len(calls) :
    LET e == calls[i]
        ld == launch_date(CURVES, e.key)
        tl == parse_timeline(CURVES, e.key)
        clamped == IF ld # None /\ e.ts_in < Val(ld) THEN Val(ld) ELSE e.ts_in
    IN /\ ld # None => e.ts >= Val(ld)
       /\ e.ts = clamped
       /\ e.joined_u = users_at(tl, clamped)
       /\ e.pct = early_pct(users_at(tl, clamped), users_today(tl))

\* an add_card call whose timestamp predates the launch date and that went on
\* to compute a percentile
C5_Witness ==
  \E i \in 1..Len(calls) :
    /\ calls[i].ld # None /\ calls[i].ts_in < Val(calls[i].ld)
    /\ calls[i].pct # None /\ all_pcts # << >>

\* r is a nearest integer to n/d (d > 0)
Nearest(r, n, d) == 2 * Abs(r * d - n) <= d

\* C6: on a non-empty timeline sorted strictly ascending, users_at is the first
\* count at or before the first date, the last count at or after the last date,
\* and between them the linear interpolation of the bracketing pair rounded to
\* the nearest integer; users_today is the last count.
C6_UsersAt ==
  (cv_pc \in { "pct", "done" } /\ cv_tl # << >>) =>
    LET n == Len(cv_tl) IN
    /\ \A i \in 1..(n - 1) : cv_tl[i][1] < cv_tl[i + 1][1]
    /\ cv_today = Some(cv_tl[n][2])
    /\ cv_joined # None
    /\ cv_when <= cv_tl[1][1] => cv_joined = Some(cv_tl[1][2])
    /\ cv_when >= cv_tl[n][1] => cv_joined = Some(cv_tl[n][2])
    /\ \A i \in 1..(n - 1) :
         (cv_tl[i][1] <= cv_when /\ cv_when <= cv_tl[i + 1][1]) =>
            Nearest(Val(cv_joined),
                    cv_tl[i][2] * (cv_tl[i + 1][1] - cv_tl[i][1])
                      + (cv_when - cv_tl[i][1]) * (cv_tl[i + 1][2] - cv_tl[i][2]),
                    cv_tl[i + 1][1] - cv_tl[i][1])

\* a lookup strictly inside a pair of control points whose interpolated value
\* is not a whole number
C6_Witness ==
  /\ cv_pc = "done" /\ Len(cv_tl) >= 2
  /\ \E i \in 1..(Len(cv_tl) - 1) :
       /\ cv_tl[i][1] < cv_when /\ cv_when < cv_tl[i + 1][1]
       /\ ((cv_when - cv_tl[i][1]) * (cv_tl[i + 1][2] - cv_tl[i][2]))
            % (cv_tl[i + 1][1] - cv_tl[i][1]) # 0

\* C7: early_pct is 100*joined/today and narrative percent 100*(1 - joined/today)
\* (to one decimal) whenever both inputs are present and today is not 0, and
\* absent exactly when an input is absent or today is 0; joined = 0 gives 0 and 100.
C7_EarlyPct ==
  cv_pc = "done" =>
    IF cv_joined = None \/ cv_today = None \/ cv_today = Some(0)
      THEN cv_pct = None /\ cv_narr = None
      ELSE /\ cv_pct # None /\ cv_narr # None
           /\ Nearest(Val(cv_pct), 1000 * Val(cv_joined), Val(cv_today))
           /\ Nearest(Val(cv_narr), 1000 * (Val(cv_today) - Val(cv_joined)), Val(cv_today))

\* C8: every request ends with both composite scores computed: score_all the
\* mean of all percentiles, score_verified the mean of the verified ones, each
\* absent exactly when its list is empty.
C8_CompositeScores ==
  (rpc \in { "done", "raised" }) =>
    /\ rpc = "done"
    /\ (score_all = None) <=> (all_pcts = << >>)
    /\ (score_verified = None) <=> (v_pcts = << >>)
    /\ all_pcts # << >> => Nearest(Val(score_all), SeqSum(all_pcts), Len(all_pcts))
    /\ v_pcts # << >> => Nearest(Val(score_verified), SeqSum(v_pcts), Len(v_pcts))

\* C10: a missing or malformed dataset never ends the process.
C10_DatasetFailOpen == proc # "crashed"

(***************************************************************************)
(* The locator's loop and the scanner's tiers.                             *)
(***************************************************************************)
\* range(32) of gmail_find_first_day, the day-bisection of app.py
MaxIterations == 32
\* a step that performs one more iteration of the locator's while loop
Iterates == iters' = iters + 1
\* the iterations a window of w ticks can take: each leaves at most the larger
\* half, and the loop is left once less than a second remains
RECURSIVE Halvings(_)
Halvings(w) == IF w < TicksPerSec THEN 0 ELSE 1 + Halvings((w + 1) \div 2)
IterBound == IF Halvings(end_dt - start_dt0) < 1 THEN 1 ELSE Halvings(end_dt - start_dt0)

\* C13 as stated: no iteration is performed once the window is below one day,
\* once 32 iterations have been performed, or once the elapsed time has
\* reached the budget.
C13_StopsAtDayFloor ==
  [][ Iterates => /\ ~((hi - lo) < TicksPerDay)
                  /\ iters < MaxIterations
                  /\ (clock - t0) < time_budget_s ]_vars

\* C13, amended: no iteration is performed once the window is below one second
\* (after the first iteration) or once the elapsed time has reached the budget,
\* and the number of iterations never exceeds the number of halvings that bring
\* the search window below one second, whatever the probes answer and whatever
\* the budget.
C13_Terminates ==
  [][ Iterates => /\ (clock - t0) < time_budget_s
                  /\ iters > 0 => (hi - lo) >= TicksPerSec
                  /\ iters' <= IterBound ]_vars

\* a locator call that ran to convergence, below the day floor, using every
\* iteration the bound allows
C13_Witness ==
  /\ spc = "ret" /\ ended = "converged"
  /\ (hi - lo) < TicksPerSec /\ iters = IterBound

\* C14: a tier is started only when every earlier tier of the list has
\* returned, only while the elapsed time is below the budget, and with the
\* remaining budget (budget minus elapsed) as the locator's budget; the tier
\* index only ever moves to the next one, on a locator's return.
C14_TiersInOrder ==
  [][ /\ (spc = "tier" /\ spc' = "loop") =>
            /\ pass_ix = Len(tier_ts) /\ pass_ix < NumTiers
            /\ clock < budget
            /\ time_budget_s' = budget - clock /\ t0' = clock
      /\ pass_ix' # pass_ix => (spc = "ret" /\ pass_ix' = pass_ix + 1 /\ clock < budget)
    ]_vars

\* the second tier just started, on a budget already partly used
C14_Witness ==
  /\ spc = "loop" /\ pass_ix = 1 /\ iters = 0 /\ Len(tier_ts) = 1
  /\ 0 < time_budget_s /\ time_budget_s < budget

\* C17: an iteration whose probe of [lo, mid] matches records the earliest
\* matching item of [lo, mid] (kept only if earlier than the best so far).
C17_RecordsEarliestOfRange ==
  [][ (Iterates /\ gmail_search_exists(pass_ix, lo, Mid(lo, hi))) =>
         best_ts' = KeepMin(best_ts, SetMin(Matching(pass_ix, lo, Mid(lo, hi)))) ]_vars

\* C18: in the loop, start <= lo <= hi <= end, no matching item of the window
\* lies on a day before lo, and once hi has left the window end a matching item
\* lies before hi; an iteration never lowers lo, never raises hi, strictly
\* shrinks hi - lo, and never raises a recorded best.
C18_LoopInvariant ==
  /\ [](spc \in { "loop", "ret" } =>
          /\ start_dt0 <= lo /\ lo <= hi /\ hi <= end_dt
          /\ \A i \in Window(pass_ix) : ~(DayOf(i) < DayOf(lo))
          /\ hi # end_dt => \E i \in Window(pass_ix) : i < hi)
  /\ [][ Iterates =>
            /\ lo' >= lo /\ hi' <= hi
            /\ (hi' - lo') < (hi - lo)
            /\ best_ts # None => (best_ts' # None /\ Val(best_ts') <= Val(best_ts)) ]_vars

\* a loop in which both bounds have moved, a hit is recorded and a later
\* matching item lies at or after hi
C18_Witness ==
  /\ spc = "loop" /\ iters >= 3
  /\ start_dt0 < lo /\ hi < end_dt
  /\ best_ts # None /\ \E i \in Window(pass_ix) : i >= hi

\* C20: whatever the budget, a timestamp held or returned by the locator is
\* that of a matching item of the search window, hence not earlier than the
\* earliest matching item of the window.
C20_ResultInWindow ==
  /\ (spc \in { "loop", "ret" } /\ best_ts # None) =>
        /\ Val(best_ts) \in Window(pass_ix)
        /\ Val(best_ts) >= SetMin(Window(pass_ix))
  /\ \A i \in 1..Len(tier_ts) :
        tier_ts[i] # None => Val(tier_ts[i]) \in Window(i - 1)

\* a search cut short by the budget that returns a hit while the store also
\* holds a matching item from before the window
C20_Witness ==
  /\ spc = "ret" /\ ended = "budget" /\ best_ts # None
  /\ \E i \in items[pass_ix] : i < start_dt0

\* C15: timeline_series gives the control points in order, each count in
\* millions (to three decimals), followed by one more point dated today with
\* the last count exactly when the last control-point date is before today's
\* date: n points or n + 1; an empty timeline gives an empty series.
C15_TimelineSeries ==
  cv_pc = "series" =>
    LET n == Len(cv_tl)
        today == cv_now \div HalvesPerDay
    IN /\ n = 0 => cv_series = << >>
       /\ n > 0 =>
            /\ Len(cv_series) = IF cv_tl[n][1] < today THEN n + 1 ELSE n
            /\ \A i \in 1..n :
                 /\ cv_series[i][1] = cv_tl[i][1]
                 /\ Nearest(cv_series[i][2], cv_tl[i][2], PerMilli)
            /\ cv_tl[n][1] < today => cv_series[n + 1] = << today, cv_series[n][2] >>

\* a series that got its trailing point in the afternoon of the day after the
\* last control point, that point's value not zero
C15_Witness ==
  /\ cv_pc = "series" /\ Len(cv_tl) >= 2
  /\ Len(cv_series) = Len(cv_tl) + 1
  /\ cv_tl[Len(cv_tl)][1] + 1 = DateOf(cv_now) /\ cv_now % HalvesPerDay = 1
  /\ cv_series[Len(cv_series)][2] > 0

(***************************************************************************)
(* The scans of a results() request and the session's manual entries.      *)
(***************************************************************************)
\* C11: once the store has rejected the request's credential, the request
\* fails there, with no card call made or lined up; it does not go on.
C11_AuthFailureSurfaced ==
  (creds = Some("rejected") /\ scan_failed # { }) => (rpc = "raised" /\ queue = << >>)

\* the oldest timestamp among the queries of the platform scanned last that
\* did not raise
OldestCaught ==
  LET S == { Val(scan_outs[i].ts) :
               i \in { j \in 1..Len(scan_outs) : ~scan_outs[j].raised /\ scan_outs[j].ts # None } }
  IN IF S = { } THEN None ELSE Some(SetMin(S))

C16_ManualFirstOfMonth ==
  /\ DOMAIN session_manual = Keys
  /\ \A k \in Keys :
       LET f == form_in[k]
           e == session_manual[k]
       IN /\ e # None =>
               /\ f.m.kind = "num" /\ f.y.kind = "num"
               /\ civil_from_days(Val(e)) = << f.y.n, f.m.n, 1 >>
          /\ (f.m.kind # "num" \/ f.y.kind # "num" \/ f.m.n \notin 1..12) => e = None
  /\ rpc = "raised" => queue # << >>

\* the session after a form with month 13 for one platform and a proper pair
\* for the other
C16_Witness ==
  /\ rpc = "idle"
  /\ \E k1, k2 \in Keys :
       /\ form_in[k1].m = Num(13) /\ session_manual[k1] = None
       /\ form_in[k2].m.kind = "num" /\ session_manual[k2] # None

(***************************************************************************)
(* One query's pages.                                                      *)
(***************************************************************************)
\* the oldest message on the pages 1..n: the last one of the last page that
\* has any
OldestOnPages(n) ==
  LET P == { i \in 1..n : i \notin pg_empty }
  IN IF P = { } THEN None
     ELSE Some(SetMin({ (pg_n - i) * PerPage + (PerPage - j) + 1 :
                          i \in P, j \in 1..PerPage }))

C21_EntryInvariant ==
  InRequest =>
    \A k \in Keys :
      resolved[k] # None =>
        LET e == Val(resolved[k])
            apart == /\ manual[k] # None /\ gmail_hits[k] # None
                     /\ MonthDistance(Val(manual[k]), Val(gmail_hits[k])) >= 12
        IN /\ e.verified <=> (Some(e.date_ms) = gmail_hits[k])
           /\ (e.email_hint_ms # None) <=> apart
           /\ apart => (~e.verified /\ Some(e.date_ms) = manual[k]
                        /\ e.email_hint_ms = gmail_hits[k])
           /\ ~(e.verified /\ e.email_hint_ms # None)
           /\ \A i \in 1..Len(queue) :
                queue[i].key = k =>
                  /\ queue[i].ts = e.date_ms /\ queue[i].verified = e.verified
                  /\ queue[i].email_hint_ms = e.email_hint_ms
           /\ \A i \in 1..Len(calls) :
                calls[i].key = k =>
                  (calls[i].ts_in = e.date_ms /\ calls[i].verified = e.verified)

\* a request with a verified entry and an entry carrying a hint, add_card
\* called for the hinted one
C21_Witness ==
  /\ InRequest
  /\ \E k1, k2 \in Keys :
       /\ resolved[k1] # None /\ Val(resolved[k1]).verified
       /\ resolved[k2] # None /\ Val(resolved[k2]).email_hint_ms # None
       /\ \E i \in 1..Len(calls) : calls[i].key = k2


\* s is t with some of its elements left out (the order kept)
RECURSIVE IsSubSeq(_, _)
IsSubSeq(s, t) ==
  IF s = << >> THEN TRUE
  ELSE IF t = << >> THEN FALSE
  ELSE IF Head(s) = Head(t) THEN IsSubSeq(Tail(s), Tail(t))
  ELSE IsSubSeq(s, Tail(t))

\* C22: after any sequence of add_card calls of a request, the verified
\* percentiles are a sub-collection of all percentiles in the same order, there
\* are as many cards as percentiles, a verified score implies an overall score,
\* and a platform has a card exactly when it contributed a percentile.
C22_CardsMatchPercentiles ==
  InRequest =>
    /\ IsSubSeq(v_pcts, all_pcts)
    /\ Len(platforms) = Len(all_pcts)
    /\ (score_verified # None) => (score_all # None)
    /\ \A k \in CurveKeys :
         (\E i \in 1..Len(platforms) : platforms[i].key = k)
           <=> (\E i \in 1..Len(calls) : calls[i].key = k /\ calls[i].pct # None)


\* the counts of a timeline never go down
Monotone(tl) == \A i \in 1..(Len(tl) - 1) : tl[i][2] <= tl[i + 1][2]
\* users_at of a timeline with non-decreasing counts does not go down from one
\* time to the next and stays between the first and the last count
UsersAtMonotone ==
  /\ Val(cv_joined) <= Val(users_at(cv_tl, cv_when + 1))
  /\ cv_tl[1][2] <= Val(cv_joined) /\ Val(cv_joined) <= cv_tl[Len(cv_tl)][2]

\* C23: on a timeline with non-decreasing counts users_at is non-decreasing in
\* time and between the first and last counts, every percentile is in (0, 100]
\* and every narrative_percent in [0, 100).
C23_PercentInHalfOpenRange ==
  (cv_pc = "done" /\ cv_tl # << >> /\ Monotone(cv_tl)) =>
    /\ UsersAtMonotone
    /\ cv_pct # None =>
         /\ 0 < Val(cv_pct) /\ Val(cv_pct) <= 1000
         /\ 0 <= Val(cv_narr) /\ Val(cv_narr) < 1000

\* C23 (amended): the same with the rounded percentages in the closed ranges:
\* percentile in [0, 100], narrative_percent in [0, 100].
C23_PercentInClosedRange ==
  (cv_pc = "done" /\ cv_tl # << >> /\ Monotone(cv_tl)) =>
    /\ UsersAtMonotone
    /\ cv_pct # None =>
         /\ 0 <= Val(cv_pct) /\ Val(cv_pct) <= 1000
         /\ 0 <= Val(cv_narr) /\ Val(cv_narr) <= 1000

\* a rising timeline, a lookup strictly between two of its points, and a
\* percentile that rounds to 0.0 with a narrative_percent of 100.0
C23_Witness ==
  /\ cv_pc = "done" /\ Len(cv_tl) >= 2 /\ Monotone(cv_tl)
  /\ cv_tl[1][1] < cv_when /\ cv_when < cv_tl[Len(cv_tl)][1]
  /\ Val(cv_joined) > 0
  /\ cv_pct = Some(0) /\ cv_narr = Some(1000)

\* the second half of C23: a timeline that declines at its end, a percentile
\* above 100 and a negative narrative_percent
C23_DecliningCurve ==
  /\ cv_pc = "done" /\ Len(cv_tl) >= 2 /\ ~Monotone(cv_tl)
  /\ cv_tl[Len(cv_tl) - 1][2] > cv_tl[Len(cv_tl)][2]
  /\ cv_pct # None /\ Val(cv_pct) > 1000 /\ Val(cv_narr) < 0


\* C25: whenever percentile and narrative_percent are both defined, the two
\* rounded values add up to exactly 100.0 (1000 tenths).
C25_Complementary ==
  (cv_pc = "done" /\ cv_pct # None /\ cv_narr # None) =>
    Val(cv_pct) + Val(cv_narr) = 1000


\* the last message of the last page among 1..n that has any
LastOnPages(n) ==
  LET P == { i \in 1..n : i \notin pg_empty }
  IN IF P = { } THEN None ELSE Some(<< SetMax(P), PerPage >>)

C24_FirstMsgNoCap == pg_pc = "fm_loop" /\ pages > PageCap /\ page # None


====
